---- MODULE Spec2Model ----
(***************************************************************************)
(* Model of the kangaroo-chess session server (src/server.js): the room    *)
(* registry gameRooms, the per-connection fields socket.roomId and         *)
(* socket.playerColor, the socket.io handlers create-room, join-room,      *)
(* make-move, game-over, accept-rematch and disconnect, the disconnect     *)
(* grace timer and the periodic staleness sweep.                           *)
(*                                                                         *)
(* Time is counted in units of five minutes: every delay of the source     *)
(* (5 min, 30 min, 2 h) is a whole number of units.                        *)
(***************************************************************************)
EXTENDS Integers, Sequences, FiniteSets

VARIABLES
    gameRooms,   \* the Map roomId -> game: a function whose DOMAIN is the registered codes
    sockets,     \* per connection: roomId, playerColor, connected, rooms joined, droppedAt
    timers,      \* pending disconnect grace checks: [sock, due]
    nextSweep,   \* instant of the next run of the staleness sweep
    now,         \* Date.now(), in units of five minutes
    out,         \* the events the last handler emitted, in order: [to, ev, game]
    last,        \* the event the last handler served: [op, sock, room, md]
    handled      \* how many socket events the server has served

vars == <<gameRooms, sockets, timers, nextSweep, now, out, last, handled>>

----------------------------------------------------------------------------
(* Bounds of the model *)

MaxEvents == 3         \* socket events served in one run of Spec
MaxTime == 7           \* last instant the clock reaches in Spec
MaxPlayEvents == 5     \* socket events served in one run of SpecPlay
MaxSweepEvents == 3    \* socket events served in one run of SpecSweep
SweepHorizon == 30     \* last instant the clock reaches in SpecSweep
MaxLobbyEvents == 5    \* socket events served in one run of SpecLobby

SocketIds == {"s1", "s2", "s3"}      \* connection identities (socket.id)
Codes == {"ROOMA", "ROOMB"}          \* codes generateRoomId can return
Names == {"Alice"}                   \* display names
Results == {"checkmate"}             \* payloads of game-over

----------------------------------------------------------------------------
(* Program constants, in units of five minutes *)

GraceInterval == 1     \* 5 * 60 * 1000 ms
SweepInterval == 6     \* 30 * 60 * 1000 ms
maxAge == 24           \* 2 * 60 * 60 * 1000 ms

----------------------------------------------------------------------------
(* Board *)

initialBoard ==
    << <<"r", "n", "b", "q", "k", "b", "n", "r">>,
       <<"p", "p", "p", "p", "p", "p", "p", "p">>,
       <<"null", "null", "null", "null", "null", "null", "null", "null">>,
       <<"null", "null", "null", "null", "null", "null", "null", "null">>,
       <<"null", "null", "null", "null", "null", "null", "null", "null">>,
       <<"null", "null", "null", "null", "null", "null", "null", "null">>,
       <<"P", "P", "P", "P", "P", "P", "P", "P">>,
       <<"R", "N", "B", "Q", "K", "B", "N", "R">> >>

WhitePieces == {"P", "N", "B", "R", "Q", "K"}
BlackPieces == {"p", "n", "b", "r", "q", "k"}
PieceCodes == WhitePieces \cup BlackPieces

\* String.prototype.toLowerCase on the one-letter piece codes
toLowerCase(piece) ==
    CASE piece = "P" -> "p"
      [] piece = "N" -> "n"
      [] piece = "B" -> "b"
      [] piece = "R" -> "r"
      [] piece = "Q" -> "q"
      [] piece = "K" -> "k"
      [] OTHER -> piece

\* board[pos.row][pos.col]; reading past the end of a row yields undefined
GetCell(board, pos) ==
    IF pos.col + 1 \in 1..Len(board[pos.row + 1])
        THEN board[pos.row + 1][pos.col + 1]
        ELSE "undefined"

\* board[pos.row][pos.col] = v; writing past the end of a row grows the row
SetCell(board, pos, v) ==
    LET row == board[pos.row + 1]
        grown == [i \in 1..(pos.col + 1) |->
                     IF i <= Len(row) THEN row[i] ELSE "undefined"]
        wide == IF pos.col + 1 > Len(row) THEN grown ELSE row
    IN  [board EXCEPT ![pos.row + 1] = [wide EXCEPT ![pos.col + 1] = v]]

----------------------------------------------------------------------------
(* Sessions *)

createNewGame(roomId) ==
    [ id            |-> roomId,
      board         |-> initialBoard,
      currentPlayer |-> "white",
      players       |-> << >>,
      spectators    |-> << >>,
      gameOver      |-> FALSE,
      result        |-> "undefined",
      moveHistory   |-> << >>,
      createdAt     |-> now ]

\* { id: socket.id, name: playerName, connected: true }
Participant(s, playerName) == [id |-> s, name |-> playerName, connected |-> TRUE]

\* game.players.<color> = { ... }
SetPlayer(game, color, s, playerName) ==
    [game EXCEPT !.players =
        [c \in (DOMAIN game.players) \cup {color} |->
            IF c = color THEN Participant(s, playerName) ELSE game.players[c]]]

\* game.players.<color>?.id === socket.id
SeatHeldBy(game, color, s) ==
    color \in DOMAIN game.players /\ game.players[color].id = s

\* game.players.<color>?.connected, as a truth value
SeatConnected(game, color) ==
    color \in DOMAIN game.players /\ game.players[color].connected

\* the vacancy test answering yes for every session
BlackAlwaysVacant(game) == TRUE

\* !game.players.black
BlackVacant(game) == "black" \notin DOMAIN game.players

\* gameRooms.set(roomId, game)
MapSet(map, roomId, game) ==
    [r \in (DOMAIN map) \cup {roomId} |-> IF r = roomId THEN game ELSE map[r]]

\* gameRooms.delete for every code of gone
MapDelete(map, gone) == [r \in (DOMAIN map) \ gone |-> map[r]]

\* gameRooms.get(roomId) is not undefined
Registered(roomId) == roomId \in DOMAIN gameRooms

\* sequence filter, as Array.prototype.filter
RECURSIVE Filter(_, _)
Filter(seq, drop) ==
    IF seq = << >> THEN << >>
    ELSE IF Head(seq).id = drop THEN Filter(Tail(seq), drop)
         ELSE <<Head(seq)>> \o Filter(Tail(seq), drop)

----------------------------------------------------------------------------
(* socket.io rooms and emissions *)

\* the connections subscribed to the socket.io room roomId
RoomMembers(roomId) == {t \in SocketIds : roomId \in sockets[t].rooms}

\* the reply sent to every connection instead of the requester
ToEveryone(s, ev, payload) == [to |-> SocketIds, ev |-> ev, game |-> payload]

\* socket.emit(ev, ...)
ToSocket(s, ev, payload) == [to |-> {s}, ev |-> ev, game |-> payload]

\* io.to(roomId).emit(ev, ...)
ToRoom(roomId, ev, payload) == [to |-> RoomMembers(roomId), ev |-> ev, game |-> payload]

\* socket.to(roomId).emit(ev, ...)
ToOthers(s, roomId, ev, payload) ==
    [to |-> RoomMembers(roomId) \ {s}, ev |-> ev, game |-> payload]

Event(op, s, roomId, md) == [op |-> op, sock |-> s, room |-> roomId, md |-> md]

\* a socket event reaches its handler
Served(op, s, roomId, md) ==
    /\ handled' = handled + 1
    /\ last' = Event(op, s, roomId, md)

\* a timer callback runs, or time passes
Timed(op, s, roomId) ==
    /\ last' = Event(op, s, roomId, << >>)
    /\ UNCHANGED handled

\* socket.join(roomId); socket.roomId = roomId; socket.playerColor = color
Enter(s, roomId, color) ==
    [sockets EXCEPT ![s].rooms = @ \cup {roomId},
                    ![s].roomId = roomId,
                    ![s].playerColor = color]

----------------------------------------------------------------------------
Init ==
    /\ gameRooms = << >>
    /\ sockets = [s \in SocketIds |->
                    [roomId |-> "undefined", playerColor |-> "undefined",
                     connected |-> TRUE, rooms |-> {}, droppedAt |-> -1]]
    /\ timers = {}
    /\ nextSweep = SweepInterval
    /\ now = 0
    /\ out = << >>
    /\ last = Event("listen", "none", "none", << >>)
    /\ handled = 0

----------------------------------------------------------------------------
(* create-room *)

CreateRoom(s, roomId, playerName) ==
    /\ sockets[s].connected
    /\ LET game == SetPlayer(createNewGame(roomId), "white", s, playerName)
       IN  /\ gameRooms' = MapSet(gameRooms, roomId, game)
           /\ sockets' = Enter(s, roomId, "white")
           /\ out' = <<ToSocket(s, "room-created", <<game>>)>>
    /\ Served("create-room", s, roomId, << >>)
    /\ UNCHANGED <<timers, nextSweep, now>>

(* join-room *)

JoinAsBlack(s, roomId, playerName) ==
    LET game == SetPlayer(gameRooms[roomId], "black", s, playerName)
        joined == Enter(s, roomId, "black")
    IN  /\ gameRooms' = MapSet(gameRooms, roomId, game)
        /\ sockets' = joined
        /\ out' = << ToSocket(s, "room-joined", <<game>>),
                     [to |-> {t \in SocketIds : roomId \in joined[t].rooms},
                      ev |-> "game-start", game |-> <<game>>] >>

JoinAsSpectator(s, roomId, playerName) ==
    LET game == [gameRooms[roomId] EXCEPT
                    !.spectators = Append(@, Participant(s, playerName))]
    IN  /\ gameRooms' = MapSet(gameRooms, roomId, game)
        /\ sockets' = Enter(s, roomId, "spectator")
        /\ out' = <<ToSocket(s, "room-joined", <<game>>)>>

JoinRoom(s, roomId, playerName) ==
    /\ sockets[s].connected
    /\ IF ~Registered(roomId)
         THEN /\ out' = <<ToSocket(s, "error:Room not found", << >>)>>
              /\ UNCHANGED <<gameRooms, sockets>>
         ELSE IF BlackVacant(gameRooms[roomId])
                THEN JoinAsBlack(s, roomId, playerName)
                ELSE JoinAsSpectator(s, roomId, playerName)
    /\ Served("join-room", s, roomId, << >>)
    /\ UNCHANGED <<timers, nextSweep, now>>

----------------------------------------------------------------------------
(* make-move *)

Pos(r, c) == [row |-> r, col |-> c]
MoveData(type, from, to, piece) == [type |-> type, from |-> from, to |-> to, piece |-> piece]

\* !game || socket.playerColor === 'spectator'
Ignored(s) ==
    \/ ~Registered(sockets[s].roomId)
    \/ sockets[s].playerColor = "spectator"

\* the turn check dropped
NotYourTurnOff(game, color) == FALSE

\* game.currentPlayer !== socket.playerColor
NotYourTurn(game, color) == game.currentPlayer # color

\* the pawn promotion test of the move branch
Promotes(md) == toLowerCase(md.piece) = "p" /\ (md.to.row = 0 \/ md.to.row = 7)

\* the move branch without the clearing of the source cell
ApplyMoveKeepsSource(board, md) ==
    LET placed == SetCell(board, md.to, md.piece)
    IN  IF Promotes(md)
          THEN SetCell(placed, md.to, IF md.piece = "P" THEN "Q" ELSE "q")
          ELSE placed

\* the move branch: place the declared piece, clear the source, promote
ApplyMove(board, md) ==
    LET placed == SetCell(board, md.to, md.piece)
        cleared == SetCell(placed, md.from, "null")
    IN  IF Promotes(md)
          THEN SetCell(cleared, md.to, IF md.piece = "P" THEN "Q" ELSE "q")
          ELSE cleared

\* the swap branch: exchange the two cells through temp
ApplySwap(board, md) ==
    LET temp == GetCell(board, md.from)
        first == SetCell(board, md.from, GetCell(board, md.to))
    IN  SetCell(first, md.to, temp)

UpdateBoard(board, md) ==
    IF md.type = "move" THEN ApplyMove(board, md)
    ELSE IF md.type = "swap" THEN ApplySwap(board, md)
    ELSE board

\* the entry recording the color the turn passes to
HistoryEntryNextPlayer(md, color) ==
    [type |-> md.type, from |-> md.from, to |-> md.to, piece |-> md.piece,
     timestamp |-> now, player |-> IF color = "white" THEN "black" ELSE "white"]

\* { ...moveData, timestamp: Date.now(), player: socket.playerColor }
HistoryEntry(md, color) ==
    [type |-> md.type, from |-> md.from, to |-> md.to, piece |-> md.piece,
     timestamp |-> now, player |-> color]

\* the switch of turns yielding black whatever the turn was
SwitchTurnStuck(currentPlayer) == "black"

\* game.currentPlayer === 'white' ? 'black' : 'white'
SwitchTurn(currentPlayer) == IF currentPlayer = "white" THEN "black" ELSE "white"

\* the applied action with move-made emitted before the game is updated
AcceptEmitsFirst(s, md) ==
    LET roomId == sockets[s].roomId
        old == gameRooms[roomId]
        game == [old EXCEPT
                    !.board = UpdateBoard(old.board, md),
                    !.moveHistory = Append(@, HistoryEntry(md, sockets[s].playerColor)),
                    !.currentPlayer = SwitchTurn(old.currentPlayer)]
    IN  /\ gameRooms' = MapSet(gameRooms, roomId, game)
        /\ out' = <<ToRoom(roomId, "move-made", <<old>>)>>

Accept(s, md) ==
    LET roomId == sockets[s].roomId
        old == gameRooms[roomId]
        game == [old EXCEPT
                    !.board = UpdateBoard(old.board, md),
                    !.moveHistory = Append(@, HistoryEntry(md, sockets[s].playerColor)),
                    !.currentPlayer = SwitchTurn(old.currentPlayer)]
    IN  /\ gameRooms' = MapSet(gameRooms, roomId, game)
        /\ out' = <<ToRoom(roomId, "move-made", <<game>>)>>

MakeMove(s, md) ==
    /\ sockets[s].connected
    /\ IF Ignored(s)
         THEN /\ out' = << >>
              /\ UNCHANGED gameRooms
         ELSE IF NotYourTurn(gameRooms[sockets[s].roomId], sockets[s].playerColor)
                THEN /\ out' = <<ToSocket(s, "error:Not your turn", << >>)>>
                     /\ UNCHANGED gameRooms
                ELSE Accept(s, md)
    /\ Served("make-move", s, sockets[s].roomId, <<md>>)
    /\ UNCHANGED <<sockets, timers, nextSweep, now>>

(* game-over *)

GameOver(s, result) ==
    /\ sockets[s].connected
    /\ LET roomId == sockets[s].roomId
       IN  IF ~Registered(roomId)
             THEN /\ out' = << >>
                  /\ UNCHANGED gameRooms
             ELSE /\ gameRooms' = [gameRooms EXCEPT ![roomId].gameOver = TRUE,
                                                    ![roomId].result = result]
                  /\ out' = <<ToRoom(roomId, "game-ended", << >>)>>
    /\ Served("game-over", s, sockets[s].roomId, << >>)
    /\ UNCHANGED <<sockets, timers, nextSweep, now>>

(* accept-rematch *)

\* the reset that forgets to empty the history
ResetGameKeepsHistory(game) ==
    [game EXCEPT !.board = initialBoard,
                 !.currentPlayer = "white",
                 !.gameOver = FALSE,
                 !.result = "undefined"]

ResetGame(game) ==
    [game EXCEPT !.board = initialBoard,
                 !.currentPlayer = "white",
                 !.gameOver = FALSE,
                 !.moveHistory = << >>,
                 !.result = "undefined"]

AcceptRematch(s) ==
    /\ sockets[s].connected
    /\ LET roomId == sockets[s].roomId
       IN  IF ~Registered(roomId)
             THEN /\ out' = << >>
                  /\ UNCHANGED gameRooms
             ELSE LET game == ResetGame(gameRooms[roomId])
                  IN  /\ gameRooms' = [gameRooms EXCEPT ![roomId] = game]
                      /\ out' = <<ToRoom(roomId, "game-reset", <<game>>)>>
    /\ Served("accept-rematch", s, sockets[s].roomId, << >>)
    /\ UNCHANGED <<sockets, timers, nextSweep, now>>

----------------------------------------------------------------------------
(* disconnect *)

\* the disconnect that vacates the seat of the player instead of flagging it
MarkDisconnectedVacates(game, s) ==
    IF SeatHeldBy(game, "white", s) \/ SeatHeldBy(game, "black", s)
      THEN [game EXCEPT !.players =
               [c \in {d \in DOMAIN game.players : game.players[d].id # s} |->
                   game.players[c]]]
      ELSE [game EXCEPT !.spectators = Filter(@, s)]

\* the if / else if / else of the handler: flag the seat or drop the spectator
MarkDisconnected(game, s) ==
    IF SeatHeldBy(game, "white", s)
      THEN [game EXCEPT !.players["white"].connected = FALSE]
    ELSE IF SeatHeldBy(game, "black", s)
      THEN [game EXCEPT !.players["black"].connected = FALSE]
    ELSE [game EXCEPT !.spectators = Filter(@, s)]

\* the connection is gone: it has left every socket.io room
Dropped(s) ==
    [sockets EXCEPT ![s].connected = FALSE, ![s].rooms = {}, ![s].droppedAt = now]

Disconnect(s) ==
    /\ sockets[s].connected
    /\ sockets' = Dropped(s)
    /\ LET roomId == sockets[s].roomId
       IN  IF ~Registered(roomId)
             THEN /\ out' = << >>
                  /\ UNCHANGED <<gameRooms, timers>>
             ELSE /\ gameRooms' = [gameRooms EXCEPT
                                      ![roomId] = MarkDisconnected(@, s)]
                  /\ out' = <<ToOthers(s, roomId, "player-disconnected", << >>)>>
                  /\ timers' = timers \cup {[sock |-> s, due |-> now + GraceInterval]}
    /\ Served("disconnect", s, sockets[s].roomId, << >>)
    /\ UNCHANGED <<nextSweep, now>>

\* the condition of the grace check
Abandoned(game) ==
    /\ ~SeatConnected(game, "white") /\ ~SeatConnected(game, "black")
    /\ Len(game.spectators) = 0

\* the setTimeout callback of the disconnect handler
GraceCheck(tm) ==
    /\ tm \in timers
    /\ tm.due = now
    /\ timers' = timers \ {tm}
    /\ LET roomId == sockets[tm.sock].roomId
       IN  gameRooms' = IF Registered(roomId) /\ Abandoned(gameRooms[roomId])
                          THEN MapDelete(gameRooms, {roomId})
                          ELSE gameRooms
    /\ out' = << >>
    /\ Timed("grace-check", tm.sock, sockets[tm.sock].roomId)
    /\ UNCHANGED <<sockets, nextSweep, now>>

----------------------------------------------------------------------------
(* staleness sweep *)

\* the age test with >= in place of >
StaleAtMaxAge(game, t) == t - game.createdAt >= maxAge

\* now - game.createdAt > maxAge
Stale(game, t) == t - game.createdAt > maxAge

StaleRooms == {r \in DOMAIN gameRooms : Stale(gameRooms[r], now)}

\* the setInterval callback
Sweep ==
    /\ nextSweep = now
    /\ gameRooms' = MapDelete(gameRooms, StaleRooms)
    /\ nextSweep' = nextSweep + SweepInterval
    /\ out' = << >>
    /\ Timed("sweep", "none", "none")
    /\ UNCHANGED <<sockets, timers, now>>

(* the clock *)

Deadlines == {tm.due : tm \in timers} \cup {nextSweep}

\* time passes up to t, never past a pending timer
AdvanceTime(t) ==
    /\ t > now
    /\ \A d \in Deadlines : t <= d
    /\ now' = t
    /\ out' = << >>
    /\ Timed("tick", "none", "none")
    /\ UNCHANGED <<gameRooms, sockets, timers, nextSweep>>

----------------------------------------------------------------------------
(* Inputs *)

MoveInputs ==
    { MoveData("move", Pos(6, 4), Pos(4, 4), "P"),
      MoveData("move", Pos(1, 4), Pos(3, 4), "p"),
      MoveData("swap", Pos(7, 0), Pos(7, 1), "R") }

\* the socket events of the connections S, with codes C and make-move payloads M,
\* while fewer than budget events have been served
Handlers(S, C, M, budget) ==
    \/ \E s \in S, r \in C, n \in Names : handled < budget /\ CreateRoom(s, r, n)
    \/ \E s \in S, r \in C, n \in Names : handled < budget /\ JoinRoom(s, r, n)
    \/ \E s \in S, md \in M : handled < budget /\ MakeMove(s, md)
    \/ \E s \in S, res \in Results : handled < budget /\ GameOver(s, res)
    \/ \E s \in S : handled < budget /\ AcceptRematch(s)
    \/ \E s \in S : handled < budget /\ Disconnect(s)

\* the timer callbacks and the passing of time up to horizon
Clock(horizon) ==
    \/ \E tm \in timers : GraceCheck(tm)
    \/ Sweep
    \/ \E t \in Deadlines : t <= horizon /\ AdvanceTime(t)

Next ==
    \/ Handlers(SocketIds, Codes, MoveInputs, MaxEvents)
    \/ Clock(MaxTime)

Spec == Init /\ [][Next]_vars

\* One room and its two players, with make-move payloads that no client
\* check has filtered: promotions, a declared piece that is not the piece on
\* the source cell, an empty source cell, swaps with an empty cell and with an
\* opponent's piece, a type that is neither move nor swap, a column past the
\* edge of the board, a piece code that is none of the twelve.  Rows stay
\* within 0..7: a row outside it makes the handler throw.  No time passes.
PlaySockets == {"s1", "s2"}
PlayCodes == {"ROOMA"}
PlayMoves ==
    { MoveData("move", Pos(6, 4), Pos(4, 4), "P"),
      MoveData("move", Pos(1, 4), Pos(3, 4), "p"),
      MoveData("move", Pos(6, 4), Pos(0, 4), "P"),
      MoveData("move", Pos(1, 4), Pos(7, 4), "p"),
      MoveData("move", Pos(6, 4), Pos(4, 4), "N"),
      MoveData("move", Pos(6, 4), Pos(7, 4), "P"),
      MoveData("move", Pos(7, 1), Pos(5, 2), "N"),
      MoveData("move", Pos(4, 4), Pos(3, 4), "P"),
      MoveData("swap", Pos(7, 0), Pos(7, 1), "R"),
      MoveData("swap", Pos(0, 0), Pos(0, 1), "r"),
      MoveData("swap", Pos(6, 4), Pos(1, 4), "P"),
      MoveData("swap", Pos(6, 4), Pos(4, 4), "P"),
      MoveData("pass", Pos(6, 4), Pos(4, 4), "P"),
      MoveData("move", Pos(6, 4), Pos(4, 8), "P"),
      MoveData("move", Pos(6, 4), Pos(4, 4), "X") }

NextPlay == Handlers(PlaySockets, PlayCodes, PlayMoves, MaxPlayEvents)

SpecPlay == Init /\ [][NextPlay]_vars

\* Two connections and one make-move payload, with the clock running past
\* the maximum age of a room.
SweepSockets == {"s1", "s2"}
SweepMoves == { MoveData("move", Pos(6, 4), Pos(4, 4), "P") }

NextSweep ==
    \/ Handlers(SweepSockets, Codes, SweepMoves, MaxSweepEvents)
    \/ Clock(SweepHorizon)

SpecSweep == Init /\ [][NextSweep]_vars

\* Three connections that all get the same code from generateRoomId, one
\* make-move payload, the grace checks and the sweep running.
LobbyCodes == {"ROOMA"}

NextLobby ==
    \/ Handlers(SocketIds, LobbyCodes, SweepMoves, MaxLobbyEvents)
    \/ Clock(MaxTime)

SpecLobby == Init /\ [][NextLobby]_vars

----------------------------------------------------------------------------
(* Properties *)

\* the step serves the socket event op
Serving(op) == handled' = handled + 1 /\ last'.op = op

\* the step is a make-move that the handler applied to the session of its room
Applied ==
    /\ Serving("make-move")
    /\ Registered(last'.room)
    /\ last'.room \in DOMAIN gameRooms'
    /\ gameRooms'[last'.room].moveHistory # gameRooms[last'.room].moveHistory

\* the step puts a new session under code r, or resets the one there
Fresh(r) ==
    \/ Serving("create-room") /\ last'.room = r
    \/ Serving("accept-rematch") /\ last'.room = r

\* the acting colors recorded in a history are white, black, white, ...
Alternating(history) ==
    \A i \in 1..Len(history) :
        history[i].player = IF i % 2 = 1 THEN "white" ELSE "black"

\* the color to move after n accepted actions
TurnAfter(n) == IF n % 2 = 0 THEN "white" ELSE "black"

\* C1: the turn of a session is white when the session is created or reset,
\* every applied make-move hands it to the other color, and no other step
\* changes it; so the acting colors recorded since the last reset alternate,
\* starting with white, and the turn is white exactly after an even number
\* of applied actions.
TurnAlternates ==
    [][\A r \in DOMAIN gameRooms' :
          LET game == gameRooms'[r]
          IN  /\ Alternating(game.moveHistory)
              /\ game.currentPlayer = TurnAfter(Len(game.moveHistory))
              /\ Fresh(r) => game.currentPlayer = "white" /\ game.moveHistory = << >>
              /\ (r \in DOMAIN gameRooms /\ ~Fresh(r)) =>
                    IF Applied /\ last'.room = r
                      THEN /\ game.currentPlayer # gameRooms[r].currentPlayer
                           /\ game.moveHistory =
                                Append(gameRooms[r].moveHistory,
                                       HistoryEntry(last'.md[1], gameRooms[r].currentPlayer))
                      ELSE /\ game.currentPlayer = gameRooms[r].currentPlayer
                           /\ game.moveHistory = gameRooms[r].moveHistory]_vars

\* white has moved and black has answered: the turn is back with white
TurnAlternatesWitness ==
    \E r \in DOMAIN gameRooms :
        /\ last.op = "make-move" /\ last.room = r
        /\ Len(gameRooms[r].moveHistory) = 2
        /\ gameRooms[r].moveHistory[1].player = "white"
        /\ gameRooms[r].moveHistory[2].player = "black"
        /\ gameRooms[r].currentPlayer = "white"

\* the step is a make-move by a player of a registered session whose color
\* is not the session's turn
OutOfTurn ==
    /\ Serving("make-move")
    /\ Registered(last'.room)
    /\ sockets[last'.sock].playerColor \in {"white", "black"}
    /\ sockets[last'.sock].playerColor # gameRooms[last'.room].currentPlayer

\* C2: a make-move by a player whose color is not the turn leaves the whole
\* registry as it was, and the only event emitted is the 'Not your turn'
\* error, addressed to the requesting connection alone.
NotYourTurnIsNoOp ==
    [][OutOfTurn =>
          /\ gameRooms' = gameRooms
          /\ Len(out') = 1
          /\ out'[1].ev = "error:Not your turn"
          /\ out'[1].to = {last'.sock}]_vars

\* black has tried to move on white's turn, in a room that white still listens to
NotYourTurnWitness ==
    /\ last.op = "make-move"
    /\ Registered(last.room)
    /\ sockets[last.sock].playerColor = "black"
    /\ gameRooms[last.room].currentPlayer = "white"
    /\ gameRooms[last.room].moveHistory = << >>
    /\ RoomMembers(last.room) \ {last.sock} # {}
    /\ Len(out) = 1
    /\ out[1].ev = "error:Not your turn"

\* C3: while the gameOver marker of a session is set, a make-move changes
\* neither the board, nor the turn, nor the history of that session.
GameOverBlocksMoves ==
    [][(/\ Serving("make-move")
        /\ Registered(last'.room)
        /\ gameRooms[last'.room].gameOver) =>
          /\ last'.room \in DOMAIN gameRooms'
          /\ gameRooms'[last'.room].board = gameRooms[last'.room].board
          /\ gameRooms'[last'.room].currentPlayer = gameRooms[last'.room].currentPlayer
          /\ gameRooms'[last'.room].moveHistory = gameRooms[last'.room].moveHistory]_vars

\* C4: create-room registers its session under a code that is not
\* registered at that moment, and every session registered before the step
\* is still registered, unchanged, after it.
CreateRoomUsesFreshCode ==
    [][Serving("create-room") =>
          /\ ~Registered(last'.room)
          /\ \A r \in DOMAIN gameRooms :
                r \in DOMAIN gameRooms' /\ gameRooms'[r] = gameRooms[r]]_vars

\* a pawn on its way to the back rank opposite to its own
PawnToLastRank(piece, to) ==
    \/ piece = "P" /\ to.row = 0
    \/ piece = "p" /\ to.row = 7

\* C5: after an applied move the destination holds a queen of the pawn's
\* color when the piece on the source cell was a pawn and the destination is
\* on its opposite back rank, and in every other case the very piece that
\* was on the source cell.
MoveCarriesSourcePiece ==
    [][(Applied /\ last'.md[1].type = "move") =>
          LET md == last'.md[1]
              moved == GetCell(gameRooms[last'.room].board, md.from)
              arrived == GetCell(gameRooms'[last'.room].board, md.to)
          IN  IF PawnToLastRank(moved, md.to)
                THEN arrived = (IF moved = "P" THEN "Q" ELSE "q")
                ELSE arrived = moved]_vars

\* the pieces of a color
PiecesOf(color) == IF color = "white" THEN WhitePieces ELSE BlackPieces

\* how many cells of the board hold the piece
CountOf(board, piece) ==
    Cardinality({<<r, c>> \in (0..7) \X (0..7) : GetCell(board, Pos(r, c)) = piece})

\* C6: an applied swap exchanges two cells that both hold a piece of the
\* acting color and leaves the number of pieces of every kind as it was; a
\* swap naming an empty cell or an opponent's piece changes no session.
SwapOnlyOwnPieces ==
    [][(/\ Serving("make-move")
        /\ last'.md[1].type = "swap"
        /\ Registered(last'.room)) =>
          LET md == last'.md[1]
              old == gameRooms[last'.room]
              own == PiecesOf(sockets[last'.sock].playerColor)
          IN  IF GetCell(old.board, md.from) \in own /\ GetCell(old.board, md.to) \in own
                THEN \/ ~Applied
                     \/ /\ GetCell(gameRooms'[last'.room].board, md.from)
                             = GetCell(old.board, md.to)
                        /\ GetCell(gameRooms'[last'.room].board, md.to)
                             = GetCell(old.board, md.from)
                        /\ \A piece \in PieceCodes :
                              CountOf(gameRooms'[last'.room].board, piece)
                                = CountOf(old.board, piece)
                ELSE gameRooms' = gameRooms]_vars

\* the connections recorded in a session, as players or spectators
Holders(game) ==
    {game.players[c].id : c \in DOMAIN game.players}
        \cup {game.spectators[i].id : i \in 1..Len(game.spectators)}

\* the largest element of a non-empty set of integers
Latest(S) == CHOOSE x \in S : \A y \in S : y <= x

\* the instant of the last disconnect that concerns the session under code r:
\* those of its holders and of the connections whose room it was
LastDrop(r) ==
    Latest({sockets[s].droppedAt :
               s \in {t \in SocketIds : t \in Holders(gameRooms[r]) \/ sockets[t].roomId = r}})

\* C7: a registered room all of whose holders have dropped is removed no
\* later than one grace interval after the last of those disconnects.
AbandonedRoomReclaimed ==
    \A r \in DOMAIN gameRooms :
        (\A s \in Holders(gameRooms[r]) : ~sockets[s].connected)
            => now <= LastDrop(r) + GraceInterval

Emitted(emissions, ev) == {i \in 1..Len(emissions) : emissions[i].ev = ev}

Roles(s) ==
    {<<r, c, 0>> : r \in {q \in DOMAIN gameRooms : SeatHeldBy(gameRooms[q], "white", s)},
                   c \in {"white"}}
    \cup
    {<<r, c, 0>> : r \in {q \in DOMAIN gameRooms : SeatHeldBy(gameRooms[q], "black", s)},
                   c \in {"black"}}
    \cup
    UNION {{<<r, "spectator", i>> :
               i \in {j \in 1..Len(gameRooms[r].spectators) : gameRooms[r].spectators[j].id = s}} :
           r \in DOMAIN gameRooms}

\* C10: every connection is recorded in at most one place: one session, one
\* role, once.
OneSessionOneRole == \A s \in SocketIds : Cardinality(Roles(s)) <= 1

\* C11: accept-rematch on a registered session puts the initial layout on
\* the board, gives the turn to white, clears gameOver, result and the
\* history, and keeps players, spectators, code and createdAt; every other
\* session is untouched; and on a session whose turn is white, as after the
\* reset, the make-move of a white player is applied.
RematchResets ==
    [][LET r == last'.room
       IN  /\ (Serving("accept-rematch") /\ Registered(r)) =>
                /\ DOMAIN gameRooms' = DOMAIN gameRooms
                /\ gameRooms'[r].board = initialBoard
                /\ gameRooms'[r].currentPlayer = "white"
                /\ gameRooms'[r].gameOver = FALSE
                /\ gameRooms'[r].result = "undefined"
                /\ gameRooms'[r].moveHistory = << >>
                /\ gameRooms'[r].players = gameRooms[r].players
                /\ gameRooms'[r].spectators = gameRooms[r].spectators
                /\ gameRooms'[r].id = gameRooms[r].id
                /\ gameRooms'[r].createdAt = gameRooms[r].createdAt
                /\ \A q \in DOMAIN gameRooms \ {r} : gameRooms'[q] = gameRooms[q]
                /\ sockets' = sockets
           /\ (/\ Serving("make-move") /\ Registered(r)
               /\ gameRooms[r].moveHistory = << >>
               /\ sockets[last'.sock].playerColor = "white") =>
                /\ Len(gameRooms'[r].moveHistory) = 1
                /\ gameRooms'[r].currentPlayer = "black"]_vars

\* a game with both players that was played, or ended, has just been reset:
\* the room received game-reset with the initial position
RematchWitness ==
    /\ last.op = "accept-rematch"
    /\ Registered(last.room)
    /\ handled >= 4
    /\ DOMAIN gameRooms[last.room].players = {"white", "black"}
    /\ gameRooms[last.room].board = initialBoard
    /\ gameRooms[last.room].moveHistory = << >>
    /\ ~gameRooms[last.room].gameOver
    /\ Len(out) = 1
    /\ out[1].ev = "game-reset"
    /\ out[1].game = <<gameRooms[last.room]>>

\* C12: a join-room naming an unregistered code changes neither the registry
\* nor any connection's room, color or subscriptions, nor the timers, and
\* emits the 'Room not found' error to the requester alone.
UnknownRoomIsNoOp ==
    [][(Serving("join-room") /\ ~Registered(last'.room)) =>
          /\ gameRooms' = gameRooms
          /\ sockets' = sockets
          /\ timers' = timers
          /\ Len(out') = 1
          /\ out'[1].ev = "error:Room not found"
          /\ out'[1].to = {last'.sock}]_vars

\* a player of one room has asked for a code that is not registered: the
\* other room and the player's seat in it are as before
UnknownRoomWitness ==
    /\ last.op = "join-room"
    /\ ~Registered(last.room)
    /\ Registered(sockets[last.sock].roomId)
    /\ sockets[last.sock].playerColor = "white"
    /\ Len(out) = 1
    /\ out[1].ev = "error:Room not found"

\* a coordinate of the 8x8 board
OnBoard(pos) == pos.row \in 0..7 /\ pos.col \in 0..7

\* a make-move payload that is structurally invalid on the board: a
\* coordinate off the board, an empty source cell, an unknown type
Invalid(board, md) ==
    \/ ~OnBoard(md.from)
    \/ ~OnBoard(md.to)
    \/ GetCell(board, md.from) = "null"
    \/ md.type \notin {"move", "swap"}

\* C13: a structurally invalid make-move from the player whose turn it is
\* leaves the session as it was (board, turn, history) and sends no
\* move-made to the room.
InvalidMoveIgnored ==
    [][(/\ Serving("make-move")
        /\ Registered(last'.room)
        /\ sockets[last'.sock].playerColor = gameRooms[last'.room].currentPlayer
        /\ Invalid(gameRooms[last'.room].board, last'.md[1])) =>
          /\ gameRooms'[last'.room].board = gameRooms[last'.room].board
          /\ gameRooms'[last'.room].currentPlayer = gameRooms[last'.room].currentPlayer
          /\ gameRooms'[last'.room].moveHistory = gameRooms[last'.room].moveHistory
          /\ Emitted(out', "move-made") = {}]_vars

\* C14: every registered session's board has 8 rows of 8 cells, each empty
\* or holding one of the twelve piece codes.
BoardWellFormed ==
    \A r \in DOMAIN gameRooms :
        /\ Len(gameRooms[r].board) = 8
        /\ \A i \in 1..Len(gameRooms[r].board) :
              /\ Len(gameRooms[r].board[i]) = 8
              /\ \A j \in 1..Len(gameRooms[r].board[i]) :
                    gameRooms[r].board[i][j] \in PieceCodes \cup {"null"}

\* C15: every event that carries a session carries it as it stands when the
\* handler that emits the event ends, so with the handler's own action in it
\* and none after it: an applied make-move sends the room one move-made whose
\* history ends with that action, accept-rematch one game-reset with the
\* reset session.  Handlers run one after the other, so the pushes of a room
\* follow the order of its actions.
PushesCarryCurrentState ==
    [][/\ \A i \in 1..Len(out') :
             out'[i].game # << >> =>
                /\ out'[i].game[1].id \in DOMAIN gameRooms'
                /\ gameRooms'[out'[i].game[1].id] = out'[i].game[1]
       /\ Applied =>
             /\ Len(out') = 1
             /\ out'[1].ev = "move-made"
             /\ out'[1].to = RoomMembers(last'.room)
             /\ out'[1].game # << >>
             /\ out'[1].game[1].id = last'.room
             /\ out'[1].game[1].moveHistory =
                   Append(gameRooms[last'.room].moveHistory,
                          HistoryEntry(last'.md[1], sockets[last'.sock].playerColor))
       /\ (Serving("accept-rematch") /\ Registered(last'.room)) =>
             /\ Len(out') = 1
             /\ out'[1].ev = "game-reset"
             /\ out'[1].to = RoomMembers(last'.room)
             /\ out'[1].game # << >>
             /\ out'[1].game[1].id = last'.room
             /\ out'[1].game[1].moveHistory = << >>]_vars

\* the second action of a game has been pushed to both players: the session
\* they receive holds both actions
PushWitness ==
    /\ last.op = "make-move"
    /\ Len(out) = 1
    /\ out[1].ev = "move-made"
    /\ Cardinality(out[1].to) = 2
    /\ out[1].game # << >>
    /\ Len(out[1].game[1].moveHistory) = 2
    /\ out[1].game[1].currentPlayer = "white"

\* C17: between resets the history of a session only grows at its end: a
\* make-move that the handler applies (move-made goes out) appends one entry
\* with the payload and the acting color, every other step that keeps the
\* session leaves the history as it is.
HistoryAppendOnly ==
    [][\A r \in (DOMAIN gameRooms) \cap (DOMAIN gameRooms') :
          ~Fresh(r) =>
             LET before == gameRooms[r].moveHistory
                 after == gameRooms'[r].moveHistory
             IN  IF /\ Serving("make-move") /\ last'.room = r
                    /\ Emitted(out', "move-made") # {}
                   THEN /\ Len(after) = Len(before) + 1
                        /\ SubSeq(after, 1, Len(before)) = before
                        /\ after[Len(after)].player = sockets[last'.sock].playerColor
                        /\ after[Len(after)].player = gameRooms[r].currentPlayer
                        /\ after[Len(after)].type = last'.md[1].type
                        /\ after[Len(after)].from = last'.md[1].from
                        /\ after[Len(after)].to = last'.md[1].to
                   ELSE after = before]_vars

\* after white's applied action white tried to act again, out of turn: the
\* rejected make-move has left the history with its single entry
HistoryWitness ==
    /\ last.op = "make-move"
    /\ Registered(last.room)
    /\ Len(gameRooms[last.room].moveHistory) = 1
    /\ gameRooms[last.room].moveHistory[1].player = "white"
    /\ sockets[last.sock].playerColor = "white"
    /\ Len(out) = 1
    /\ out[1].ev = "error:Not your turn"

\* C18: an applied move between two different cells of the board empties
\* the source, puts the declared piece, or the queen it is promoted to, on
\* the destination, and leaves the other 62 cells, the players, the
\* spectators and gameOver as they were.
MoveChangesTwoCells ==
    [][(/\ Applied
        /\ last'.md[1].type = "move"
        /\ OnBoard(last'.md[1].from) /\ OnBoard(last'.md[1].to)
        /\ last'.md[1].from # last'.md[1].to) =>
          LET md == last'.md[1]
              old == gameRooms[last'.room]
              new == gameRooms'[last'.room]
              arrived == GetCell(new.board, md.to)
          IN  /\ GetCell(new.board, md.from) = "null"
              /\ \/ arrived = md.piece
                 \/ /\ md.piece \in {"P", "p"}
                    /\ md.to.row \in {0, 7}
                    /\ arrived = (IF md.piece = "P" THEN "Q" ELSE "q")
              /\ (md.piece \in {"P", "p"} /\ md.to.row \in {0, 7}) => arrived \in {"Q", "q"}
              /\ \A r \in 0..7, c \in 0..7 :
                    (Pos(r, c) # md.from /\ Pos(r, c) # md.to) =>
                       GetCell(new.board, Pos(r, c)) = GetCell(old.board, Pos(r, c))
              /\ Len(new.board) = Len(old.board)
              /\ \A i \in 1..Len(old.board) : Len(new.board[i]) = Len(old.board[i])
              /\ new.players = old.players
              /\ new.spectators = old.spectators
              /\ new.gameOver = old.gameOver]_vars

\* a white pawn was moved onto the black king's cell on row 0: the king is
\* gone, a white queen stands there and the pawn's cell is empty
MoveWitness ==
    /\ last.op = "make-move"
    /\ Registered(last.room)
    /\ Len(gameRooms[last.room].moveHistory) = 1
    /\ last.md[1] = MoveData("move", Pos(6, 4), Pos(0, 4), "P")
    /\ GetCell(gameRooms[last.room].board, Pos(0, 4)) = "Q"
    /\ GetCell(gameRooms[last.room].board, Pos(6, 4)) = "null"

\* C16: a grace check and the sweep change nothing but which codes are
\* registered; and a session that a grace check removes was registered when
\* the check was scheduled, that is, it was created no later than the
\* disconnect that scheduled the check.
GraceCheckActsOnItsSession ==
    [][((last'.op = "grace-check" /\ timers' # timers)
            \/ (last'.op = "sweep" /\ nextSweep' # nextSweep)) =>
          /\ DOMAIN gameRooms' \subseteq DOMAIN gameRooms
          /\ \A r \in DOMAIN gameRooms' : gameRooms'[r] = gameRooms[r]
          /\ last'.op = "grace-check" =>
                \A r \in (DOMAIN gameRooms) \ (DOMAIN gameRooms') :
                    gameRooms[r].createdAt <= sockets[last'.sock].droppedAt]_vars

\* C19: a make-move is applied to a session only when the sending
\* connection is the one recorded in that session's seat of the color to
\* move.
OnlySeatHolderActs ==
    [][Applied =>
          SeatHeldBy(gameRooms[last'.room], gameRooms[last'.room].currentPlayer,
                     last'.sock)]_vars

\* C20: as long as a session stays registered and is not replaced by a
\* create-room under its code, each occupied seat keeps its connection
\* identity and its name; its connected flag never turns from false to true
\* and turns to false only at the disconnect of its occupant; a join-room
\* to a room whose black seat is occupied, connected or not, makes the
\* joiner the last spectator.
SeatsArePermanent ==
    [][\A r \in (DOMAIN gameRooms) \cap (DOMAIN gameRooms') :
          ~(Serving("create-room") /\ last'.room = r) =>
             /\ \A c \in DOMAIN gameRooms[r].players :
                   /\ c \in DOMAIN gameRooms'[r].players
                   /\ gameRooms'[r].players[c].id = gameRooms[r].players[c].id
                   /\ gameRooms'[r].players[c].name = gameRooms[r].players[c].name
                   /\ gameRooms'[r].players[c].connected => gameRooms[r].players[c].connected
                   /\ (gameRooms[r].players[c].connected
                          /\ ~gameRooms'[r].players[c].connected) =>
                         /\ Serving("disconnect")
                         /\ last'.sock = gameRooms[r].players[c].id
             /\ (/\ Serving("join-room") /\ last'.room = r
                 /\ "black" \in DOMAIN gameRooms[r].players) =>
                   /\ sockets'[last'.sock].playerColor = "spectator"
                   /\ Len(gameRooms'[r].spectators) = Len(gameRooms[r].spectators) + 1
                   /\ gameRooms'[r].spectators[Len(gameRooms'[r].spectators)].id
                         = last'.sock]_vars

\* the black player has dropped and a third connection has joined since: it
\* is a spectator, and the black seat still names the dropped connection
SeatsWitness ==
    /\ last.op = "join-room"
    /\ Registered(last.room)
    /\ "black" \in DOMAIN gameRooms[last.room].players
    /\ ~gameRooms[last.room].players["black"].connected
    /\ ~sockets[gameRooms[last.room].players["black"].id].connected
    /\ gameRooms[last.room].players["white"].connected
    /\ gameRooms[last.room].players["white"].id # gameRooms[last.room].players["black"].id
    /\ last.sock \notin {gameRooms[last.room].players[c].id : c \in {"white", "black"}}
    /\ sockets[last.sock].playerColor = "spectator"
    /\ Len(gameRooms[last.room].spectators) = 1
    /\ gameRooms[last.room].spectators[1].id = last.sock

====
